---- MODULE Spec2Model ----
(***************************************************************************)
(* A model of the voice assistant's command-interpretation-and-dispatch    *)
(* pipeline: the TaskExecutor dispatcher (core/task_executor.py), the      *)
(* AIEngine interpreter (core/ai_engine.py), the SystemController handler  *)
(* (core/system_controller.py) and the AIVoiceBot orchestrator (main.py).  *)
(*                                                                         *)
(* Python values are records [t, v, k]: t is the type name, v the display  *)
(* string str(x) gives, k the key set of a mapping.  A Python function is  *)
(* an operator that yields a result record: kind "return" with the value,  *)
(* or kind "raise" with the exception that leaves the function.            *)
(***************************************************************************)
EXTENDS Integers, Sequences, FiniteSets, TLC

VARIABLES
    handlers,       \* TaskExecutor.handlers: category -> handler
    call,           \* the execute_task call in progress or just returned
    has_api_key,    \* AIEngine.has_api_key
    vcall,          \* the AIEngine.validate_task call just returned
    pcall,          \* the AIEngine.process_command call just returned
    is_running,     \* AIVoiceBot.is_running
    is_listening,   \* AIVoiceBot.is_listening
    utter,          \* the process_voice_command step just finished
    main,           \* the main thread: where it is in start, the CLI loop or stop
    voice_thread,   \* the thread of start_voice_listening: where it is in listen_loop
    speech,         \* the threads speak has started: how many wait, how many speak
    cleaned         \* VoiceManager.cleanup has run

vars ==
    <<handlers, call, has_api_key, vcall, pcall, is_running, is_listening, utter,
      main, voice_thread, speech, cleaned>>

threadVars == <<main, voice_thread, speech, cleaned>>

\* AIVoiceBot.__init__ has returned: start has not been called, no thread runs
NoThreads ==
    /\ main = [pc |-> "init"]
    /\ voice_thread = [pc |-> "unstarted"]
    /\ speech = [waiting |-> 0, device |-> 0]
    /\ cleaned = FALSE

-----------------------------------------------------------------------------
(* Bounds of the model *)

\* how many alternatives the environment may choose from when an operation runs
EnvChoices == 2
\* how many pieces an input text is made of
MaxPieces == 2
\* how many parts a service reply is made of
MaxParts == 2

-----------------------------------------------------------------------------
(* Python values *)

None_ == [t |-> "NoneType", v |-> "None", k |-> {}]
S(s) == [t |-> "str", v |-> s, k |-> {}]
I(s) == [t |-> "int", v |-> s, k |-> {}]
B(b) == [t |-> "bool", v |-> IF b THEN "True" ELSE "False", k |-> {}]
D(keys, disp) == [t |-> "dict", v |-> disp, k |-> keys]
L(disp) == [t |-> "list", v |-> disp, k |-> {}]

\* bool(x): None, "", 0, False, {} and [] are false, every other value true
Truthy(x) ==
    CASE x.t = "NoneType" -> FALSE
      [] x.t = "str" -> x.v # ""
      [] x.t = "int" -> x.v # "0"
      [] x.t = "bool" -> x.v = "True"
      [] x.t = "dict" -> x.v # "{}"
      [] x.t = "list" -> x.v # "[]"
      [] OTHER -> TRUE

\* hash(x) raises TypeError for the mutable containers
Hashable(x) == x.t \notin {"dict", "list"}

\* a Task instance (core/ai_engine.py, the dataclass)
Task(a, c, p, d) ==
    [t |-> "Task", action |-> a, category |-> c, parameters |-> p, description |-> d]

Ret(tag, v, inv) == [kind |-> "return", tag |-> tag, v |-> v, invoked |-> inv]
Raise(typ, msg, inv) == [kind |-> "raise", tag |-> typ, v |-> msg, invoked |-> inv]

\* what an operation does once it runs: returns ret, or raises msg
Returns(r) == [raises |-> FALSE, ret |-> r, msg |-> ""]
Raises(m) == [raises |-> TRUE, ret |-> None_, msg |-> m]

\* the environment's n-th alternative among the outcomes an operation has
Pick(outs, n) == outs[((n - 1) % Len(outs)) + 1]

-----------------------------------------------------------------------------
(* Handlers: what hasattr, getattr, callable and a call see of an object *)

Method(req, opt, outs) == [kind |-> "method", req |-> req, opt |-> opt, outs |-> outs, typ |-> "method"]
Data(typ) == [kind |-> "data", req |-> {}, opt |-> {}, outs |-> <<>>, typ |-> typ]

\* each operation catches its own failures and returns one of two strings
SystemController ==
    [type |-> "SystemController", truthy |-> TRUE, callable |-> FALSE, callOuts |-> <<>>,
     attrs |->
       [logger |-> Data("Logger"),
        shutdown |-> Method({}, {}, <<Returns(S("System shutdown initiated")),
                                     Returns(S("Shutdown failed: [Errno 2] No such file or directory: 'shutdown'"))>>),
        restart |-> Method({}, {}, <<Returns(S("System restart initiated")),
                                    Returns(S("Restart failed: [Errno 2] No such file or directory: 'reboot'"))>>),
        lock_screen |-> Method({}, {}, <<Returns(S("Screen locked")),
                                        Returns(S("Screen lock failed: [Errno 2] No such file or directory: 'gnome-screensaver-command'"))>>),
        volume_up |-> Method({}, {}, <<Returns(S("Volume increased")),
                                      Returns(S("Volume up failed: [Errno 2] No such file or directory: 'amixer'"))>>),
        volume_down |-> Method({}, {}, <<Returns(S("Volume decreased")),
                                        Returns(S("Volume down failed: [Errno 2] No such file or directory: 'amixer'"))>>),
        open_app |-> Method({"app_name"}, {}, <<Returns(S("Opened firefox")),
                                               Returns(S("Failed to open firefox: [Errno 2] No such file or directory: 'firefox'"))>>),
        close_app |-> Method({"app_name"}, {}, <<Returns(S("Closed firefox")),
                                                Returns(S("Failed to close firefox: Command '['pkill', 'firefox']' returned non-zero exit status 1."))>>),
        get_system_info |-> Method({}, {}, <<Returns(D({"cpu_percent", "memory_percent", "disk_percent", "battery_percent"},
                                                       "{'cpu_percent': 1.0, 'memory_percent': 2.0, 'disk_percent': 3.0, 'battery_percent': None}")),
                                            Returns(D({}, "{}"))>>),
        take_screenshot |-> Method({}, {"filename"}, <<Returns(S("Screenshot saved as screenshot.png")),
                                                      Returns(S("Screenshot failed: cannot open display"))>>),
        get_available_actions |-> Method({}, {}, <<Returns(L("['shutdown', 'restart', 'lock_screen', 'volume_up', 'volume_down', 'open_app', 'close_app', 'get_system_info', 'take_screenshot']"))>>)]]

\* the interpreter as the handler of category 'ai': its public operations and fields
AIEngineHandler ==
    [type |-> "AIEngine", truthy |-> TRUE, callable |-> FALSE, callOuts |-> <<>>,
     attrs |->
       [logger |-> Data("Logger"),
        has_api_key |-> Data("bool"),
        command_patterns |-> Data("dict"),
        process_command |-> Method({"voice_input"}, {}, <<Returns([t |-> "tuple", v |-> "(\"I'm sorry, I encountered an error processing your command.\", None)", k |-> {}])>>),
        validate_task |-> Method({"task"}, {}, <<Returns(B(FALSE)), Returns(B(TRUE))>>),
        get_command_suggestions |-> Method({}, {}, <<Returns(D({"system_control", "file_operations", "web_automation", "information"}, "{'system_control': [...], ...}"))>>),
        get_help_text |-> Method({}, {}, <<Returns(S("I can help you with various tasks: ..."))>>)]]

\* handler shapes register_handler accepts beside the two above (handler: Any)
ExecuteHandler ==
    [type |-> "ExecuteHandler", truthy |-> TRUE, callable |-> FALSE, callOuts |-> <<>>,
     attrs |-> [execute |-> Method({"task"}, {}, <<Returns(S("executed")), Raises("boom")>>)]]

FunctionHandler ==
    [type |-> "function", truthy |-> TRUE, callable |-> TRUE,
     callOuts |-> <<Returns(None_), Raises("boom")>>,
     attrs |-> <<>>]

FullHandler ==
    [type |-> "FullHandler", truthy |-> TRUE, callable |-> TRUE,
     callOuts |-> <<Returns(S("called"))>>,
     attrs |-> [run |-> Method({}, {}, <<Returns(I("0")), Returns(S("ran"))>>),
                execute |-> Method({"task"}, {}, <<Returns(S("executed"))>>)]]

PlainHandler ==
    [type |-> "object", truthy |-> TRUE, callable |-> FALSE, callOuts |-> <<>>, attrs |-> <<>>]

NoneHandler ==
    [type |-> "NoneType", truthy |-> FALSE, callable |-> FALSE, callOuts |-> <<>>, attrs |-> <<>>]

\* the handlers of categories 'web' and 'file', with the operations the
\* interpreter's instructions name for them
WebAutomation ==
    [type |-> "WebAutomation", truthy |-> TRUE, callable |-> FALSE, callOuts |-> <<>>,
     attrs |-> [open_website |-> Method({"url"}, {}, <<Returns(S("Opened website")), Raises("browser error")>>),
                search_web |-> Method({"query"}, {}, <<Returns(S("Searched the web")), Raises("browser error")>>)]]

FileManager ==
    [type |-> "FileManager", truthy |-> TRUE, callable |-> FALSE, callOuts |-> <<>>,
     attrs |-> [create_file |-> Method({"filename"}, {}, <<Returns(S("Created file")), Raises("permission denied")>>),
                delete_file |-> Method({"filename"}, {}, <<Returns(S("Deleted file")), Raises("permission denied")>>)]]

\* the registry holds references: a handler object is named by its type
HandlerShapes ==
    {SystemController, AIEngineHandler, ExecuteHandler, FunctionHandler, FullHandler,
     PlainHandler, NoneHandler}

HandlerRefs == {h.type : h \in HandlerShapes}

Deref(ref) == CHOOSE h \in HandlerShapes \cup {WebAutomation, FileManager} : h.type = ref

\* hasattr(handler, name) for a str name
HasAttr(handler, name) == name \in DOMAIN handler.attrs

\* a call that runs the body whatever arguments it is given
CallAttrUnchecked(d, keys, n) ==
    IF d.kind # "method"
    THEN [ran |-> FALSE, out |-> Raises("'" \o d.typ \o "' object is not callable")]
    ELSE [ran |-> TRUE, out |-> Pick(d.outs, n)]

\* the call f(**kwargs) of an attribute: the outcome, and whether the body ran
CallAttr(d, keys, n) ==
    IF d.kind # "method"
    THEN [ran |-> FALSE, out |-> Raises("'" \o d.typ \o "' object is not callable")]
    ELSE IF ~(d.req \subseteq keys)
    THEN [ran |-> FALSE, out |-> Raises("missing a required argument")]
    ELSE IF ~(keys \subseteq (d.req \cup d.opt))
    THEN [ran |-> FALSE, out |-> Raises("got an unexpected keyword argument")]
    ELSE [ran |-> TRUE, out |-> Pick(d.outs, n)]

-----------------------------------------------------------------------------
(* TaskExecutor (core/task_executor.py) *)

\* task.category in self.handlers, for a hashable category
InRegistry(hs, c) == c.t = "str" /\ c.v \in DOMAIN hs

\* str(result) if result else "Task completed successfully"
ResultString(r) == IF Truthy(r) THEN r.v ELSE "Task completed successfully"

TaskExecutor_register_handler(hs, category, handler) ==
    [c \in DOMAIN hs \cup {category} |-> IF c = category THEN handler ELSE hs[c]]

TaskExecutor_validate_task(hs, task) ==
    IF task.t = "NoneType" \/ ~Truthy(task.action) \/ ~Truthy(task.category)
    THEN Ret("bool", FALSE, <<>>)
    ELSE IF ~Hashable(task.category)
    THEN Raise("TypeError", "unhashable type: '" \o task.category.t \o "'", <<>>)
    ELSE IF ~InRegistry(hs, task.category)
    THEN Ret("bool", FALSE, <<>>)
    ELSE Ret("bool", TRUE, <<>>)

\* what a call made through the dispatcher yields: the operation's string, or
\* the exception of the call; entry is the invocation, recorded if the body ran
CallResult(tag, c, entry) ==
    IF c.out.raises
    THEN Raise("Exception", c.out.msg, IF c.ran THEN <<entry>> ELSE <<>>)
    ELSE Ret(tag, ResultString(c.out.ret), IF c.ran THEN <<entry>> ELSE <<>>)

\* the body of the try statement of _execute_with_handler
ExecuteWithHandlerBody(handler, task, n) ==
    IF task.action.t # "str"
    THEN Raise("TypeError", "attribute name must be string, not '" \o task.action.t \o "'", <<>>)
    ELSE IF HasAttr(handler, task.action.v)
    THEN IF Truthy(task.parameters)
         THEN IF task.parameters.t # "dict"
              THEN Raise("TypeError",
                         "argument after ** must be a mapping, not " \o task.parameters.t, <<>>)
              ELSE CallResult("method",
                              CallAttr(handler.attrs[task.action.v], task.parameters.k, n),
                              [via |-> "method", name |-> task.action.v,
                               args |-> task.parameters])
         ELSE CallResult("method",
                         CallAttr(handler.attrs[task.action.v], {}, n),
                         [via |-> "method", name |-> task.action.v, args |-> D({}, "{}")])
    ELSE IF HasAttr(handler, "execute")
    THEN CallResult("execute",
                    CallAttr(handler.attrs["execute"], {"task"}, n),
                    [via |-> "execute", name |-> "execute", args |-> task])
    ELSE IF handler.callable
    THEN CallResult("call",
                    [ran |-> TRUE, out |-> Pick(handler.callOuts, n)],
                    [via |-> "call", name |-> handler.type, args |-> task])
    ELSE Ret("unsupported",
             "Handler " \o handler.type \o " doesn't support action: " \o task.action.v, <<>>)

\* the except clause of _execute_with_handler, given how the try body ended
ExecuteWithHandlerExcept(body) ==
    IF body.kind = "raise"
    THEN Ret("execfailed", "Execution failed: " \o body.v, body.invoked)
    ELSE body

TaskExecutor_execute_with_handler(handler, task, n) ==
    ExecuteWithHandlerExcept(ExecuteWithHandlerBody(handler, task, n))

\* execute_task after the handler lookup
WithHandler(handler, task, n) ==
    IF ~handler.truthy
    THEN Ret("nohandler", "No handler registered for category: " \o task.category.v, <<>>)
    ELSE TaskExecutor_execute_with_handler(handler, task, n)

\* execute_task after _validate_task ended as valid did
Validated(hs, task, n, valid) ==
    IF valid.kind = "raise" THEN valid
    ELSE IF ~valid.v THEN Ret("invalid", "Invalid task: " \o task.action.v, <<>>)
    ELSE WithHandler(Deref(hs[task.category.v]), task, n)

\* the body of the try statement of execute_task
ExecuteTaskBody(hs, task, n) ==
    IF task.t # "Task"
    THEN Raise("AttributeError", "'" \o task.t \o "' object has no attribute 'action'", <<>>)
    ELSE Validated(hs, task, n, TaskExecutor_validate_task(hs, task))

\* the except clause of execute_task: it formats task.action again, outside
\* any try
ExecuteTaskExcept(task, body) ==
    IF body.kind = "raise"
    THEN IF task.t # "Task"
         THEN Raise("AttributeError", "'" \o task.t \o "' object has no attribute 'action'",
                    body.invoked)
         ELSE Ret("error", "Error executing task " \o task.action.v \o ": " \o body.v,
                  body.invoked)
    ELSE body

TaskExecutor_execute_task(hs, task, n) ==
    ExecuteTaskExcept(task, ExecuteTaskBody(hs, task, n))

-----------------------------------------------------------------------------
(* The dispatcher on its own: register_handler and execute_task called with *)
(* any values                                                               *)

RegCategories == {"system", "plugin"}

ActionValues ==
    {S("volume_up"), S("open_app"), S("logger"), S("execute"), S("run"), S("sleep"),
     S(""), None_, I("5")}

CategoryValues ==
    {S("system"), S("plugin"), S("unknown"), S(""), None_, D({"a"}, "{'a': 1}")}

ParameterValues ==
    {None_, D({}, "{}"), D({"app_name"}, "{'app_name': 'firefox'}"),
     D({"bogus"}, "{'bogus': 1}"), L("[1]")}

DescriptionValues == {S(""), S("Increase Volume"), None_}

\* the actions the interpreter's instructions name for category 'system'
AdvertisedSystemActions ==
    {"shutdown", "restart", "sleep", "lock", "volume_up", "volume_down", "brightness_up",
     "brightness_down", "open_app", "close_app"}

TaskValues ==
    {None_}
    \cup {Task(a, c, p, d) : a \in ActionValues, c \in CategoryValues,
                             p \in ParameterValues, d \in DescriptionValues}
    \cup {Task(S(a), S("system"), p, S("Increase Volume")) :
             a \in AdvertisedSystemActions, p \in ParameterValues}
    \cup {Task(S("validate_task"), c, D({"task"}, "{'task': None}"), S("Increase Volume")) :
             c \in {S("system"), S("plugin")}}

NoCall == [st |-> "idle"]

RegisterHandler(c, h) ==
    /\ call.st = "idle"
    /\ handlers' = TaskExecutor_register_handler(handlers, c, h)
    /\ UNCHANGED <<call, has_api_key, vcall, pcall, is_running, is_listening, utter>>
    /\ UNCHANGED threadVars

ExecuteTask(task, n) ==
    /\ call.st = "idle"
    /\ call' = [st |-> "returned", task |-> task, n |-> n,
                res |-> TaskExecutor_execute_task(handlers, task, n)]
    /\ UNCHANGED <<handlers, has_api_key, vcall, pcall, is_running, is_listening, utter>>
    /\ UNCHANGED threadVars

\* the caller takes the result; the dispatcher is ready for the next call
TakeResult ==
    /\ call.st = "returned"
    /\ call' = NoCall
    /\ UNCHANGED <<handlers, has_api_key, vcall, pcall, is_running, is_listening, utter>>
    /\ UNCHANGED threadVars

InitExec ==
    /\ handlers = <<>>
    /\ call = NoCall
    /\ has_api_key = FALSE
    /\ vcall = NoCall
    /\ pcall = NoCall
    /\ is_running = TRUE
    /\ is_listening = FALSE
    /\ utter = NoCall
    /\ NoThreads

NextExec ==
    \/ call.st = "idle" /\ \E c \in RegCategories, h \in HandlerRefs : RegisterHandler(c, h)
    \/ call.st = "idle" /\ \E task \in TaskValues, n \in 1..EnvChoices : ExecuteTask(task, n)
    \/ TakeResult

SpecExec == InitExec /\ [][NextExec]_vars

-----------------------------------------------------------------------------
(* Claims about the dispatcher, checked under SpecExec *)

Returned == call.st = "returned"

IsTask(x) == x.t = "Task"

\* the dispatch got as far as resolving an operation on a handler
Resolving ==
    /\ Returned
    /\ IsTask(call.task)
    /\ Truthy(call.task.action)
    /\ InRegistry(handlers, call.task.category)
    /\ Deref(handlers[call.task.category.v]).truthy

\* an operation of the handler: an attribute that can be invoked
IsOperation(h, name) == HasAttr(h, name) /\ h.attrs[name].kind = "method"

\* exactly the invocation e was made, or it was attempted and failed
InvokedOnly(res, tag, e) ==
    \/ res.tag = tag /\ res.invoked = <<e>>
    \/ res.tag = "execfailed" /\ res.invoked \in {<<>>, <<e>>}

\* the return statements of the dispatcher that yield a failure string
FailureTags == {"invalid", "nohandler", "error", "execfailed", "unsupported"}

\* C1: whatever value execute_task is given (a well-formed task, a task with
\* empty fields, None, a task of an unregistered category, a task whose
\* operation raises), it returns a string and raises nothing to its caller.
C1_NeverPropagates == Returned => call.res.kind = "return"

\* C2: dispatching a task with non-empty action and category whose category
\* has no handler in the registry returns 'No handler registered for
\* category: <category>' and invokes no handler operation.
C2_NoHandlerString ==
    ( /\ Returned
      /\ IsTask(call.task)
      /\ Truthy(call.task.action)
      /\ call.task.category.t = "str"
      /\ Truthy(call.task.category)
      /\ call.task.category.v \notin DOMAIN handlers )
    => /\ call.res.kind = "return"
       /\ call.res.v = "No handler registered for category: " \o call.task.category.v
       /\ call.res.invoked = <<>>

\* C3: the operation is resolved by strict precedence: (a) the handler
\* operation named task.action, with task.parameters as named arguments;
\* (b) otherwise the handler's execute, passed the task; (c) otherwise the
\* handler itself if invocable, passed the task; (d) otherwise the 'Handler
\* <type> doesn't support action: <action>' string.  At most one operation
\* is invoked, and none in case (d).
C3_Precedence ==
    Resolving =>
        LET h == Deref(handlers[call.task.category.v])
            a == call.task.action
            p == call.task.parameters
            res == call.res
        IN  /\ res.kind = "return"
            /\ IF a.t = "str" /\ IsOperation(h, a.v)
               THEN InvokedOnly(res, "method",
                                [via |-> "method", name |-> a.v,
                                 args |-> IF Truthy(p) THEN p ELSE D({}, "{}")])
               ELSE IF IsOperation(h, "execute")
               THEN InvokedOnly(res, "execute",
                                [via |-> "execute", name |-> "execute", args |-> call.task])
               ELSE IF h.callable
               THEN InvokedOnly(res, "call",
                                [via |-> "call", name |-> h.type, args |-> call.task])
               ELSE /\ res.v = "Handler " \o h.type \o " doesn't support action: " \o a.v
                    /\ res.invoked = <<>>

\* C4: a task in which action, category or description is empty is rejected:
\* execute_task returns a failure string and invokes no handler operation,
\* even when the category has a handler that supports the action.
C4_RejectsEmptyFields ==
    ( /\ Returned
      /\ IsTask(call.task)
      /\ \/ ~Truthy(call.task.action)
         \/ ~Truthy(call.task.category)
         \/ ~Truthy(call.task.description) )
    => /\ call.res.kind = "return"
       /\ call.res.tag \in FailureTags
       /\ call.res.invoked = <<>>

-----------------------------------------------------------------------------
(* Text: a str that is searched or lower-cased is a sequence of characters *)

RECURSIVE FlattenFrom(_, _)
FlattenFrom(seq, i) == IF i > Len(seq) THEN "" ELSE seq[i] \o FlattenFrom(seq, i + 1)

\* the str a sequence of characters (or of strs) spells
Flatten(seq) == FlattenFrom(seq, 1)

\* str.lower, character by character
LowerChar(c) ==
    CASE c = "A" -> "a"
      [] c = "B" -> "b"
      [] c = "C" -> "c"
      [] c = "D" -> "d"
      [] c = "E" -> "e"
      [] c = "F" -> "f"
      [] c = "G" -> "g"
      [] c = "H" -> "h"
      [] c = "I" -> "i"
      [] c = "J" -> "j"
      [] c = "K" -> "k"
      [] c = "L" -> "l"
      [] c = "M" -> "m"
      [] c = "N" -> "n"
      [] c = "O" -> "o"
      [] c = "P" -> "p"
      [] c = "Q" -> "q"
      [] c = "R" -> "r"
      [] c = "S" -> "s"
      [] c = "T" -> "t"
      [] c = "U" -> "u"
      [] c = "V" -> "v"
      [] c = "W" -> "w"
      [] c = "X" -> "x"
      [] c = "Y" -> "y"
      [] c = "Z" -> "z"
      [] OTHER -> c

Lower(text) == [i \in 1..Len(text) |-> LowerChar(text[i])]

\* word in text
Contains(text, word) ==
    \E i \in 1..(Len(text) - Len(word) + 1) : SubSeq(text, i, i + Len(word) - 1) = word

\* any(word in text for word in words)
AnyIn(text, words) == \E w \in words : Contains(text, w)

ShutdownWords ==
    {<<"s", "h", "u", "t", "d", "o", "w", "n">>,
     <<"t", "u", "r", "n", " ", "o", "f", "f">>,
     <<"p", "o", "w", "e", "r", " ", "o", "f", "f">>}

RestartWords ==
    {<<"r", "e", "s", "t", "a", "r", "t">>,
     <<"r", "e", "b", "o", "o", "t">>}

VolumeWords ==
    {<<"v", "o", "l", "u", "m", "e">>,
     <<"s", "o", "u", "n", "d">>}

TimeWords ==
    {<<"t", "i", "m", "e">>,
     <<"w", "h", "a", "t", " ", "t", "i", "m", "e">>}

WeatherWords ==
    {<<"w", "e", "a", "t", "h", "e", "r">>,
     <<"t", "e", "m", "p", "e", "r", "a", "t", "u", "r", "e">>}

GreetingWords ==
    {<<"h", "e", "l", "l", "o">>,
     <<"h", "i">>,
     <<"h", "e", "y">>}

\* datetime.now(): hour and minute of the wall clock
Times == {[h |-> 0, m |-> 5], [h |-> 15, m |-> 40]}

Digit(n) ==
    CASE n = 0 -> "0" [] n = 1 -> "1" [] n = 2 -> "2" [] n = 3 -> "3" [] n = 4 -> "4"
      [] n = 5 -> "5" [] n = 6 -> "6" [] n = 7 -> "7" [] n = 8 -> "8" [] n = 9 -> "9"

TwoDigits(n) == Digit(n \div 10) \o Digit(n % 10)

\* strftime("%I:%M %p")
Strftime(now) ==
    TwoDigits(IF now.h % 12 = 0 THEN 12 ELSE now.h % 12) \o ":" \o TwoDigits(now.m)
        \o " " \o (IF now.h < 12 THEN "AM" ELSE "PM")

ShutdownResponse ==
    "I can help you shut down the computer. Please use the GUI or type 'shutdown' in the command line."
RestartResponse ==
    "I can help you restart the computer. Please use the GUI or type 'restart' in the command line."
VolumeResponse ==
    "I can help you control the volume. Please use the volume controls or let me know if you want me to adjust it."
TimeResponse(now) == "The current time is " \o Strftime(now) \o "."
WeatherResponse ==
    "I can't check the weather right now, but you can ask me to open a weather website for you."
GreetingResponse ==
    "Hello! I'm your AI assistant. I can help you control your computer, manage files, and automate tasks. What would you like me to do?"
DefaultResponse(text) ==
    "I heard you say '" \o Flatten(text)
        \o "'. I'm here to help! You can ask me to control your computer, manage files, or help with various tasks."

\* _fallback_response matching on the text as typed, without lower()
FallbackCaseSensitive(voice_input, now) ==
    IF AnyIn(voice_input, ShutdownWords) THEN ShutdownResponse
    ELSE IF AnyIn(voice_input, RestartWords) THEN RestartResponse
    ELSE IF AnyIn(voice_input, VolumeWords) THEN VolumeResponse
    ELSE IF AnyIn(voice_input, TimeWords) THEN TimeResponse(now)
    ELSE IF AnyIn(voice_input, WeatherWords) THEN WeatherResponse
    ELSE IF AnyIn(voice_input, GreetingWords) THEN GreetingResponse
    ELSE DefaultResponse(voice_input)

\* returns a str, never a (response, task) pair
AIEngine_fallback_response(voice_input, now) ==
    LET input_lower == Lower(voice_input)
    IN  IF AnyIn(input_lower, ShutdownWords) THEN ShutdownResponse
        ELSE IF AnyIn(input_lower, RestartWords) THEN RestartResponse
        ELSE IF AnyIn(input_lower, VolumeWords) THEN VolumeResponse
        ELSE IF AnyIn(input_lower, TimeWords) THEN TimeResponse(now)
        ELSE IF AnyIn(input_lower, WeatherWords) THEN WeatherResponse
        ELSE IF AnyIn(input_lower, GreetingWords) THEN GreetingResponse
        ELSE DefaultResponse(voice_input)

TextPieces ==
    {<<"S", "h", "u", "t", "D", "o", "w", "n">>,
     <<"W", "h", "a", "t", " ", "T", "i", "m", "e">>,
     <<"r", "e", "s", "t", "a", "r", "t">>,
     <<"V", "O", "L", "U", "M", "E">>,
     <<" ", "i", "s", " ">>,
     <<"h", "e", "l", "l", "o">>,
     <<"x", "y">>}

RECURSIVE Concats(_, _)
\* the sequences made of at most n pieces
Concats(pieces, n) ==
    IF n = 0 THEN {<<>>}
    ELSE LET shorter == Concats(pieces, n - 1)
         IN  shorter \cup {s \o p : s \in shorter, p \in pieces}

Texts == Concats(TextPieces, MaxPieces)

-----------------------------------------------------------------------------------------------------------------------------------------------------
(* The service reply: a sequence of tokens, each with the text it stands for. *)
(* The braces of an object are tokens of their own, so the first '{' and the  *)
(* last '}' of the reply are found as str.find and str.rfind find them.  A    *)
(* member whose value is an object holds that value's braces in its text: in  *)
(* the replies below such a member always stands between the braces of the   *)
(* object it belongs to, so it never holds the first or the last brace.       *)

Tok(tok, key, val, text) == [tok |-> tok, key |-> key, val |-> val, text |-> text]

LBrace == Tok("lbrace", "", None_, "{")
RBrace == Tok("rbrace", "", None_, "}")
Comma == Tok("comma", "", None_, ", ")
Words == Tok("text", "", None_, "Sure, I can do that")
\* "key": value
Member(key, val, text) == Tok("member", key, val, text)

MAction == Member("action", S("volume_up"), "\"action\": \"volume_up\"")
MCategory == Member("category", S("system"), "\"category\": \"system\"")
MParameters == Member("parameters", D({}, "{}"), "\"parameters\": {}")
MDescription == Member("description", S("Increase Volume"), "\"description\": \"Increase Volume\"")
MDescriptionNumber == Member("description", I("5"), "\"description\": 5")

ReplyParts ==
    {<<Words>>,
     <<LBrace, MAction, Comma, MCategory, Comma, MParameters, Comma, MDescription, RBrace>>,
     <<LBrace, MAction, Comma, MCategory, Comma, MDescription, RBrace>>,
     <<LBrace, MAction, Comma, MCategory, Comma, MParameters, RBrace>>,
     <<LBrace, MAction, Comma, MCategory, Comma, MParameters, Comma, MDescriptionNumber,
       RBrace>>,
     <<RBrace>>,
     <<LBrace>>}

Replies == Concats(ReplyParts, MaxParts)

\* what the call to the service does: it raises, or it answers with a reply
ServiceOutcomes ==
    {[raises |-> TRUE, reply |-> <<>>]} \cup {[raises |-> FALSE, reply |-> r] : r \in Replies}

ReplyText(reply) == Flatten([i \in 1..Len(reply) |-> reply[i].text])

\* str.find / str.rfind of a brace: the index, 0 when there is none (Python's -1)
Find(reply, tok) ==
    IF \E i \in 1..Len(reply) : reply[i].tok = tok
    THEN CHOOSE i \in 1..Len(reply) :
            /\ reply[i].tok = tok
            /\ \A j \in 1..(i - 1) : reply[j].tok # tok
    ELSE 0

RFind(reply, tok) ==
    IF \E i \in 1..Len(reply) : reply[i].tok = tok
    THEN CHOOSE i \in 1..Len(reply) :
            /\ reply[i].tok = tok
            /\ \A j \in (i + 1)..Len(reply) : reply[j].tok # tok
    ELSE 0

DecodeError == [ok |-> FALSE, d |-> <<>>]
Decoded(d) == [ok |-> TRUE, d |-> d]

\* an object is '{', members separated by commas, '}'
WellFormed(toks) ==
    /\ Len(toks) >= 2
    /\ toks[1].tok = "lbrace"
    /\ toks[Len(toks)].tok = "rbrace"
    /\ Len(toks) > 2 => Len(toks) % 2 = 1
    /\ \A i \in 2..(Len(toks) - 1) :
          toks[i].tok = (IF i % 2 = 0 THEN "member" ELSE "comma")

\* the record of an object: of two members of one name the later one counts
Members(toks) ==
    LET at == {i \in 2..(Len(toks) - 1) : toks[i].tok = "member"}
        last(key) == CHOOSE i \in at :
                        /\ toks[i].key = key
                        /\ \A j \in at : toks[j].key = key => j <= i
    IN  [key \in {toks[i].key : i \in at} |-> toks[last(key)].val]

\* json.loads of a str that starts at a '{': an object, or JSONDecodeError
JsonLoads(toks) == IF WellFormed(toks) THEN Decoded(Members(toks)) ELSE DecodeError

-----
(* AIEngine (core/ai_engine.py) *)

ValidCategories == {"system", "file", "web", "ai"}

RequiredFields == {"action", "category", "parameters", "description"}

\* str.lower of the description strings the replies carry
LowerStr(str) == IF str = "Increase Volume" THEN "increase volume" ELSE str

StrResult(str) == [shape |-> "str", s |-> str]
Pair(response, task) == [shape |-> "tuple", response |-> response, task |-> task]

ErrorResponse == "I'm sorry, I encountered an error processing your command."

AIEngine_extract_task_from_response(response) ==
    LET start_idx == Find(response, "lbrace")
        end_idx == RFind(response, "rbrace")
    IN  IF start_idx # 0 /\ end_idx # 0
        THEN LET task_data == JsonLoads(SubSeq(response, start_idx, end_idx))
             IN  IF ~task_data.ok THEN None_
                 ELSE IF RequiredFields \subseteq DOMAIN task_data.d
                 THEN Task(task_data.d["action"], task_data.d["category"],
                           task_data.d["parameters"], task_data.d["description"])
                 ELSE None_
        ELSE None_

\* any failure inside the try returns the fallback response, a str
AIEngine_process_with_openai(voice_input, svc, now) ==
    IF svc.raises
    THEN StrResult(AIEngine_fallback_response(voice_input, now))
    ELSE LET task == AIEngine_extract_task_from_response(svc.reply)
         IN  IF task.t = "Task"
             THEN IF task.description.t # "str"
                  THEN StrResult(AIEngine_fallback_response(voice_input, now))
                  ELSE Pair("I'll " \o LowerStr(task.description.v) \o ".", task)
             ELSE Pair(ReplyText(svc.reply), None_)

\* response, task = value: a 2-tuple unpacks; a str unpacks only when it has
\* two characters, and raises ValueError otherwise
Unpack(value) ==
    IF value.shape = "tuple"
    THEN [ok |-> TRUE, response |-> value.response, task |-> value.task]
    ELSE IF Len(value.s) = 2
    THEN [ok |-> TRUE, response |-> "s[0]", task |-> S("s[1]")]
    ELSE [ok |-> FALSE, response |-> "", task |-> None_]

AIEngine_process_command(key, voice_input, svc, now) ==
    IF ~key
    THEN StrResult(AIEngine_fallback_response(voice_input, now))
    ELSE LET u == Unpack(AIEngine_process_with_openai(voice_input, svc, now))
         IN  IF ~u.ok THEN Pair(ErrorResponse, None_)
             ELSE IF Truthy(u.task)
             THEN Pair(u.response, u.task)
             ELSE Pair(u.response, None_)

\* validate_task without its test of the category
ValidateTaskBodyAnyCategory(task) ==
    IF task.t = "NoneType"
    THEN Raise("AttributeError", "'NoneType' object has no attribute 'action'", <<>>)
    ELSE IF ~(Truthy(task.action) /\ Truthy(task.category) /\ Truthy(task.description))
    THEN Ret("bool", FALSE, <<>>)
    ELSE IF task.action.t # "str" \/ Len(task.action.v) < 2
    THEN Ret("bool", FALSE, <<>>)
    ELSE Ret("bool", TRUE, <<>>)

\* the body of the try statement of validate_task
ValidateTaskBody(task) ==
    IF task.t = "NoneType"
    THEN Raise("AttributeError", "'NoneType' object has no attribute 'action'", <<>>)
    ELSE IF ~(Truthy(task.action) /\ Truthy(task.category) /\ Truthy(task.description))
    THEN Ret("bool", FALSE, <<>>)
    ELSE IF ~(task.category.t = "str" /\ task.category.v \in ValidCategories)
    THEN Ret("bool", FALSE, <<>>)
    ELSE IF task.action.t # "str" \/ Len(task.action.v) < 2
    THEN Ret("bool", FALSE, <<>>)
    ELSE Ret("bool", TRUE, <<>>)

AIEngine_validate_task(task) ==
    LET body == ValidateTaskBody(task)
    IN  IF body.kind = "raise" THEN Ret("bool", FALSE, <<>>) ELSE body

-----------------------------------------------------------------------------
(* The interpreter on its own: validate_task and process_command called with *)
(* any values, with and without a configured service                         *)

VActionValues == {S("volume_up"), S("ab"), S("x"), S(""), None_, I("5"), I("0"), L("[1]")}

VCategoryValues ==
    {S("system"), S("file"), S("web"), S("ai"), S("System"), S("plugin"), S(""), None_,
     D({"a"}, "{'a': 1}")}

VDescriptionValues == {S("Increase Volume"), S(""), None_, I("5")}

VTaskValues ==
    {None_} \cup
    {Task(a, c, p, d) : a \in VActionValues, c \in VCategoryValues,
                        p \in {None_, D({}, "{}")}, d \in VDescriptionValues}

\* offline the service is not called
NotCalled == [raises |-> TRUE, reply |-> <<>>]

EngineIdle == vcall.st = "idle" /\ pcall.st = "idle"

ValidateTask(task) ==
    /\ EngineIdle
    /\ vcall' = [st |-> "returned", task |-> task, res |-> AIEngine_validate_task(task)]
    /\ UNCHANGED <<handlers, call, has_api_key, pcall, is_running, is_listening, utter>>
    /\ UNCHANGED threadVars

ProcessCommand(voice_input, svc, now) ==
    /\ EngineIdle
    /\ pcall' = [st |-> "returned", text |-> voice_input, svc |-> svc, now |-> now,
                 res |-> AIEngine_process_command(has_api_key, voice_input, svc, now)]
    /\ UNCHANGED <<handlers, call, has_api_key, vcall, is_running, is_listening, utter>>
    /\ UNCHANGED threadVars

TakeValidation ==
    /\ vcall.st = "returned"
    /\ vcall' = NoCall
    /\ UNCHANGED <<handlers, call, has_api_key, pcall, is_running, is_listening, utter>>
    /\ UNCHANGED threadVars

TakeResponse ==
    /\ pcall.st = "returned"
    /\ pcall' = NoCall
    /\ UNCHANGED <<handlers, call, has_api_key, vcall, is_running, is_listening, utter>>
    /\ UNCHANGED threadVars

\* AIEngine(api_key): with a key, or with none
InitEngine ==
    /\ handlers = <<>>
    /\ call = NoCall
    /\ has_api_key \in BOOLEAN
    /\ vcall = NoCall
    /\ pcall = NoCall
    /\ is_running = TRUE
    /\ is_listening = FALSE
    /\ utter = NoCall
    /\ NoThreads

NextEngine ==
    \/ EngineIdle /\ \E task \in VTaskValues : ValidateTask(task)
    \/ EngineIdle /\ has_api_key
          /\ \E svc \in ServiceOutcomes : \E voice_input \in Texts : \E now \in Times :
                ProcessCommand(voice_input, svc, now)
    \/ EngineIdle /\ ~has_api_key
          /\ \E voice_input \in Texts : \E now \in Times :
                ProcessCommand(voice_input, NotCalled, now)
    \/ TakeValidation
    \/ TakeResponse

SpecEngine == InitEngine /\ [][NextEngine]_vars

-----------------------------------------------------------------------------
(* Claims about the interpreter, checked under SpecEngine *)

\* the values Python counts as empty
EmptyValues == {None_, S(""), I("0"), B(FALSE), D({}, "{}"), L("[]")}

\* C5: validate_task returns true if and only if action, category and
\* description are all non-empty, category is one of system, file, web, ai,
\* and action is a string of length at least 2; it never raises.
C5_ValidateIff ==
    vcall.st = "returned" =>
        /\ vcall.res.kind = "return"
        /\ vcall.res.v =
             ( /\ IsTask(vcall.task)
               /\ vcall.task.action \notin EmptyValues
               /\ vcall.task.category \notin EmptyValues
               /\ vcall.task.description \notin EmptyValues
               /\ vcall.task.category \in {S("system"), S("file"), S("web"), S("ai")}
               /\ vcall.task.action.t = "str"
               /\ Len(vcall.task.action.v) >= 2 )

\* validate_task has accepted a task of category 'web'
C5_Witness ==
    /\ vcall.st = "returned"
    /\ vcall.res.v = TRUE
    /\ vcall.task.category = S("web")

Offline == pcall.st = "returned" /\ ~has_api_key

\* C6: offline, process_command returns a pair (response, no task) for every
\* text, and for a text containing 'shutdown' in any case the response is the
\* shutdown guidance.
C6_OfflinePair ==
    Offline =>
        /\ pcall.res.shape = "tuple"
        /\ pcall.res.task = None_
        /\ Contains(Lower(pcall.text), <<"s", "h", "u", "t", "d", "o", "w", "n">>)
             => pcall.res.response = ShutdownResponse

WhatTime == <<"w", "h", "a", "t", " ", "t", "i", "m", "e">>

\* the words of the groups the matcher tests before the time group
C7_EarlierWords ==
    {<<"s", "h", "u", "t", "d", "o", "w", "n">>, <<"t", "u", "r", "n", " ", "o", "f", "f">>,
     <<"p", "o", "w", "e", "r", " ", "o", "f", "f">>, <<"r", "e", "s", "t", "a", "r", "t">>,
     <<"r", "e", "b", "o", "o", "t">>, <<"v", "o", "l", "u", "m", "e">>,
     <<"s", "o", "u", "n", "d">>}

\* C7 as claimed: offline, every text containing 'what time', also one that
\* contains words of other groups, gets the time response.
C7_TimeAlways ==
    (Offline /\ Contains(Lower(pcall.text), WhatTime))
    => pcall.res.s = TimeResponse(pcall.now)

\* C7 as amended: offline, every text that contains 'what time' (any case,
\* any surrounding text) and no word of the shutdown, restart or volume
\* groups gets the time response.
C7_TimeUnlessEarlierGroup ==
    ( /\ Offline
      /\ Contains(Lower(pcall.text), WhatTime)
      /\ \A w \in C7_EarlierWords : ~Contains(Lower(pcall.text), w) )
    => pcall.res.s = TimeResponse(pcall.now)

\* the time was asked in mixed case with text around it, at 3:40 in the afternoon
C7_Witness ==
    /\ Offline
    /\ pcall.text = <<"W", "h", "a", "t", " ", "T", "i", "m", "e", " ", "i", "s", " ">>
    /\ pcall.now = [h |-> 15, m |-> 40]
    /\ pcall.res.s = "The current time is 03:40 PM."

\* C8: with a service configured, a failing call to it makes process_command
\* return the offline response for the same text and no task, not a generic
\* error message.
C8_FailureFallsBack ==
    (pcall.st = "returned" /\ has_api_key /\ pcall.svc.raises)
    => /\ pcall.res.shape = "tuple"
       /\ pcall.res.response = AIEngine_fallback_response(pcall.text, pcall.now)
       /\ pcall.res.task = None_

\* C9: the substring from the first '{' to the last '}' yields a Task exactly
\* when it decodes to a record with action, category and description, the
\* parameters defaulting to empty; then the response is the acknowledgment
\* built from the lower-cased description and the Task carries the record's
\* action and category.  Otherwise the result is the raw reply and no task.
C9_ExtractRule ==
    (pcall.st = "returned" /\ has_api_key /\ ~pcall.svc.raises) =>
        LET reply == pcall.svc.reply
            first == Find(reply, "lbrace")
            last == RFind(reply, "rbrace")
            rec == JsonLoads(SubSeq(reply, first, last))
            res == pcall.res
        IN  IF /\ first # 0
               /\ last # 0
               /\ rec.ok
               /\ {"action", "category", "description"} \subseteq DOMAIN rec.d
            THEN rec.d["description"].t = "str" =>
                   /\ res.shape = "tuple"
                   /\ IsTask(res.task)
                   /\ res.task.action = rec.d["action"]
                   /\ res.task.category = rec.d["category"]
                   /\ res.task.parameters =
                        IF "parameters" \in DOMAIN rec.d THEN rec.d["parameters"]
                        ELSE D({}, "{}")
                   /\ res.response = "I'll " \o LowerStr(rec.d["description"].v) \o "."
            ELSE res = Pair(ReplyText(reply), None_)

-----------------------------------------------------------------------------
(* AIVoiceBot (main.py) and the speak request of VoiceManager *)

Apology == "Sorry, I encountered an error processing your command"

\* speak starts a thread inside its own try: whether or not the thread starts,
\* the request returns to its caller
VoiceManager_speak(text, started) ==
    [kind |-> "return", request |-> [text |-> text, async |-> TRUE, started |-> started]]

\* _register_task_handlers
StartupHandlers ==
    [system |-> "SystemController", web |-> "WebAutomation", file |-> "FileManager",
     ai |-> "AIEngine"]

Step(kind, dispatched, spoken) == [kind |-> kind, dispatched |-> dispatched, spoken |-> spoken]

\* the body of the try statement of process_voice_command, given what
\* process_command returned
VoiceCommandBody(hs, interp, n, started) ==
    LET u == Unpack(interp)
    IN  IF ~u.ok THEN Step("raise", <<>>, <<>>)
        ELSE IF Truthy(u.task)
        THEN LET result == TaskExecutor_execute_task(hs, u.task, n)
                 d == <<[task |-> u.task, res |-> result]>>
             IN  IF result.kind = "raise" THEN Step("raise", d, <<>>)
                 ELSE Step("return", d,
                           <<VoiceManager_speak("Task completed: " \o result.v, started).request>>)
        ELSE Step("return", <<>>, <<VoiceManager_speak(u.response, started).request>>)

\* process_voice_command without the speak of its except clause
VoiceCommandSilentExcept(hs, interp, n, started) ==
    LET body == VoiceCommandBody(hs, interp, n, started)
    IN  [interp |-> interp, caught |-> body.kind = "raise", raised |-> FALSE,
         dispatched |-> body.dispatched, spoken |-> body.spoken]

AIVoiceBot_process_voice_command(hs, interp, n, started) ==
    LET body == VoiceCommandBody(hs, interp, n, started)
    IN  [interp |-> interp, caught |-> body.kind = "raise", raised |-> FALSE,
         dispatched |-> body.dispatched,
         spoken |-> IF body.kind = "raise"
                    THEN body.spoken \o <<VoiceManager_speak(Apology, started).request>>
                    ELSE body.spoken]

ProcessVoiceCommand(audio_input, svc, now, n, started) ==
    /\ is_running
    /\ utter.st = "idle"
    /\ \E interp \in {AIEngine_process_command(has_api_key, audio_input, svc, now)} :
          utter' = [st |-> "done", text |-> audio_input,
                    step |-> AIVoiceBot_process_voice_command(handlers, interp, n, started)]
    /\ UNCHANGED <<handlers, call, has_api_key, vcall, pcall, is_running, is_listening>>
    /\ UNCHANGED threadVars

\* the loop that handed the utterance over goes on to the next one
NextUtterance ==
    /\ utter.st = "done"
    /\ utter' = NoCall
    /\ UNCHANGED <<handlers, call, has_api_key, vcall, pcall, is_running, is_listening>>
    /\ UNCHANGED threadVars

Stop ==
    /\ is_running' = FALSE
    /\ is_listening' = FALSE
    /\ UNCHANGED <<handlers, call, has_api_key, vcall, pcall, utter>>
    /\ UNCHANGED threadVars

\* AIVoiceBot.__init__: the configuration holds a service key, or none
Init ==
    /\ handlers = StartupHandlers
    /\ call = NoCall
    /\ has_api_key \in BOOLEAN
    /\ vcall = NoCall
    /\ pcall = NoCall
    /\ is_running = TRUE
    /\ is_listening = FALSE
    /\ utter = NoCall
    /\ NoThreads

Next ==
    \/ is_running /\ utter.st = "idle" /\ has_api_key
         /\ \E svc \in ServiceOutcomes : \E audio_input \in Texts : \E now \in Times :
              \E n \in 1..EnvChoices, started \in BOOLEAN :
                ProcessVoiceCommand(audio_input, svc, now, n, started)
    \/ is_running /\ utter.st = "idle" /\ ~has_api_key
         /\ \E audio_input \in Texts : \E now \in Times :
              \E n \in 1..EnvChoices, started \in BOOLEAN :
                ProcessVoiceCommand(audio_input, NotCalled, now, n, started)
    \/ NextUtterance
    \/ Stop

Spec == Init /\ [][Next]_vars

-----------------------------------------------------------------------------
(* Claims about the orchestrator, checked under Spec *)

\* C10: for each utterance handed to process_voice_command: if the
\* interpreter produced a Task, the dispatcher is called exactly once with it
\* and one acknowledgment containing the dispatch result is spoken; if it
\* produced none, the dispatcher is not called and the plain response is
\* spoken; if an exception occurs in the step, an apology is spoken instead.
\* Exactly one speak request is issued and the step never raises.
C10_OneSpeakPerUtterance ==
    utter.st = "done" =>
        LET step == utter.step
            produced == step.interp.shape = "tuple" /\ IsTask(step.interp.task)
        IN  /\ ~step.raised
            /\ Len(step.spoken) = 1
            /\ IF produced
               THEN /\ Len(step.dispatched) = 1
                    /\ step.dispatched[1].task = step.interp.task
               ELSE step.dispatched = <<>>
            /\ IF step.caught
               THEN step.spoken[1].text = Apology
               ELSE IF produced
               THEN step.spoken[1].text = "Task completed: " \o step.dispatched[1].res.v
               ELSE step.spoken[1].text = step.interp.response

\* a Task was produced, dispatched once to SystemController.volume_up, and
\* its result acknowledged
C10_Witness ==
    /\ utter.st = "done"
    /\ utter.step.interp.shape = "tuple"
    /\ IsTask(utter.step.interp.task)
    /\ Len(utter.step.dispatched) = 1
    /\ utter.step.dispatched[1].res.invoked # <<>>
    /\ utter.step.spoken = <<[text |-> "Task completed: Volume increased", async |-> TRUE,
                              started |-> TRUE]>>

-----------------------------------------------------------------------------
(* The threads of the orchestrator: the main thread (start, the window or   *)
(* the CLI loop, stop), the thread of listen_loop, and the threads speak    *)
(* starts.  A statement that reads or writes a flag is a step of its own.   *)

\* how many utterances may be in progress or being spoken at a time
MaxSpeech == 2

RECURSIVE LStrip(_)
LStrip(text) == IF text # <<>> /\ Head(text) = " " THEN LStrip(Tail(text)) ELSE text

RECURSIVE RStrip(_)
RStrip(text) ==
    IF text # <<>> /\ text[Len(text)] = " "
    THEN RStrip(SubSeq(text, 1, Len(text) - 1))
    ELSE text

\* str.strip
Strip(text) == RStrip(LStrip(text))

NoText == [none |-> TRUE, text |-> <<>>]
SomeText(text) == [none |-> FALSE, text |-> text]

\* what the recogniser does in one listen: it raises, or it transcribes a text
Heard(raises, text) == [raises |-> raises, text |-> text]

HeardTexts ==
    {<<>>, <<" ">>, <<"H", "e", "l", "l", "o", " ">>,
     <<"S", "h", "u", "t", "D", "o", "w", "n">>}

ListenOutcomes ==
    {Heard(e, <<>>) : e \in {"WaitTimeoutError", "UnknownValueError", "RequestError", "OSError"}}
    \cup {Heard("", text) : text \in HeardTexts}

\* listen: every exception is caught and None returned; so is an empty text
VoiceManager_listen(heard) ==
    IF heard.raises # "" THEN NoText
    ELSE IF heard.text # <<>> THEN SomeText(Strip(Lower(heard.text)))
    ELSE NoText

\* if audio_input: / elif command:
TruthyText(audio_input) == ~audio_input.none /\ audio_input.text # <<>>

\* the replies the service gives in this part of the model
ThreadServiceOutcomes ==
    {[raises |-> TRUE, reply |-> <<>>],
     [raises |-> FALSE, reply |-> <<Words>>],
     [raises |-> FALSE,
      reply |-> <<LBrace, MAction, Comma, MCategory, Comma, MParameters, Comma,
                  MDescription, RBrace>>]}

\* process_voice_command up to the call of execute_task or of speak: the
\* interpreter has answered
Interpreted(interp) ==
    [pc |-> IF Unpack(interp).ok /\ Truthy(Unpack(interp).task) THEN "dispatch" ELSE "speak",
     interp |-> interp]

InCommand(thread) == thread.pc \in {"dispatch", "speak"}

\* the utterances taken and not yet spoken to the end
InProgress ==
    speech.waiting + speech.device
        + (IF InCommand(main) THEN 1 ELSE 0) + (IF InCommand(voice_thread) THEN 1 ELSE 0)

\* the threads speak starts for the requests of one step
Started(spoken) == Cardinality({i \in DOMAIN spoken : spoken[i].started})

\* how the last iteration of listen_loop ended
Outcome(step) ==
    IF step.caught THEN "apology"
    ELSE IF step.dispatched # <<>> THEN "acknowledged"
    ELSE "responded"

\* start: start_voice_listening starts the thread of listen_loop, start_gui
\* opens the window; neither touches the flags
Start ==
    /\ main.pc = "init"
    /\ main' = [pc |-> "gui"]
    /\ voice_thread' = [pc |-> "test", last |-> "none"]
    /\ UNCHANGED <<handlers, call, has_api_key, vcall, pcall, is_running, is_listening, utter,
                   speech, cleaned>>

\* the window switches listening on or off
ToggleListening ==
    /\ main.pc = "gui"
    /\ is_listening' = ~is_listening
    /\ UNCHANGED <<handlers, call, has_api_key, vcall, pcall, is_running, utter, threadVars>>

\* start_gui: the window raises, the except clause starts the CLI loop
GuiFails ==
    /\ main.pc = "gui"
    /\ main' = [pc |-> "cli"]
    /\ UNCHANGED <<handlers, call, has_api_key, vcall, pcall, is_running, is_listening, utter,
                   voice_thread, speech, cleaned>>

\* stop is called while the window runs
GuiStop ==
    /\ main.pc = "gui"
    /\ main' = [pc |-> "stop"]
    /\ UNCHANGED <<handlers, call, has_api_key, vcall, pcall, is_running, is_listening, utter,
                   voice_thread, speech, cleaned>>

Quit == <<"q", "u", "i", "t">>

CliLines == {<<>>, <<"Q", "u", "i", "t", " ">>, <<"H", "e", "l", "l", "o", " ">>}

\* one turn of the loop of start_cli_mode, from the test of is_running to the
\* call of stop or of process_command, or back to the test
CliTurn(line, interrupt, svc, now) ==
    /\ main.pc = "cli"
    /\ is_running
    /\ IF interrupt \/ Lower(Strip(line)) = Quit
       THEN main' = [pc |-> "stop"]
       ELSE IF Strip(line) # <<>>
       THEN /\ InProgress < MaxSpeech
            /\ main' = Interpreted(AIEngine_process_command(has_api_key, Strip(line), svc, now))
       ELSE main' = main
    /\ UNCHANGED <<handlers, call, has_api_key, vcall, pcall, is_running, is_listening, utter,
                   voice_thread, speech, cleaned>>

\* the rest of process_voice_command on the main thread: execute_task and the
\* speak of the result, or the speak of the response or of the apology
CliFinish(n, started) ==
    /\ InCommand(main)
    /\ \E step \in {AIVoiceBot_process_voice_command(handlers, main.interp, n, started)} :
          /\ speech' = [speech EXCEPT !.waiting = @ + Started(step.spoken)]
          /\ main' = [pc |-> "cli"]
    /\ UNCHANGED <<handlers, call, has_api_key, vcall, pcall, is_running, is_listening, utter,
                   voice_thread, cleaned>>

\* stop, line 153
StopRunning ==
    /\ main.pc = "stop"
    /\ is_running' = FALSE
    /\ main' = [pc |-> "stop_154"]
    /\ UNCHANGED <<handlers, call, has_api_key, vcall, pcall, is_listening, utter,
                   voice_thread, speech, cleaned>>

\* stop, line 154
StopListening ==
    /\ main.pc = "stop_154"
    /\ is_listening' = FALSE
    /\ main' = [pc |-> "stop_156"]
    /\ UNCHANGED <<handlers, call, has_api_key, vcall, pcall, is_running, utter,
                   voice_thread, speech, cleaned>>

\* stop, lines 156 to 159: cleanup, and stop returns
StopCleanup ==
    /\ main.pc = "stop_156"
    /\ cleaned' = TRUE
    /\ main' = [pc |-> "stopped"]
    /\ UNCHANGED <<handlers, call, has_api_key, vcall, pcall, is_running, is_listening, utter,
                   voice_thread, speech>>

\* a listen_loop that gives up after an utterance that brought no text or an
\* apology
ListenLoopGivesUp(running, last) ==
    IF running /\ last \notin {"notext", "apology"}
    THEN [pc |-> "body", last |-> last]
    ELSE [pc |-> "exited", last |-> last]

\* while self.is_running:
ListenLoopTest(running, last) ==
    IF running THEN [pc |-> "body", last |-> last] ELSE [pc |-> "exited", last |-> last]

LoopTest ==
    /\ voice_thread.pc = "test"
    /\ voice_thread' = ListenLoopTest(is_running, voice_thread.last)
    /\ UNCHANGED <<handlers, call, has_api_key, vcall, pcall, is_running, is_listening, utter,
                   main, speech, cleaned>>

\* if self.is_listening:
LoopBody ==
    /\ voice_thread.pc = "body"
    /\ voice_thread' = IF is_listening THEN [pc |-> "listen", last |-> voice_thread.last]
                       ELSE [pc |-> "sleep", last |-> "idle"]
    /\ UNCHANGED <<handlers, call, has_api_key, vcall, pcall, is_running, is_listening, utter,
                   main, speech, cleaned>>

\* listen returns; with a text, process_voice_command starts and the
\* interpreter answers
Listen(heard, svc, now) ==
    /\ voice_thread.pc = "listen"
    /\ \E audio_input \in {VoiceManager_listen(heard)} :
          IF TruthyText(audio_input)
          THEN /\ InProgress < MaxSpeech
               /\ voice_thread' =
                    Interpreted(AIEngine_process_command(has_api_key, audio_input.text, svc, now))
          ELSE voice_thread' = [pc |-> "sleep", last |-> "notext"]
    /\ UNCHANGED <<handlers, call, has_api_key, vcall, pcall, is_running, is_listening, utter,
                   main, speech, cleaned>>

\* the rest of process_voice_command on the thread of listen_loop; an
\* exception that left it would be caught by the loop, which goes on without
\* the sleep
LoopFinish(n, started) ==
    /\ InCommand(voice_thread)
    /\ \E step \in {AIVoiceBot_process_voice_command(handlers, voice_thread.interp, n, started)} :
          /\ speech' = [speech EXCEPT !.waiting = @ + Started(step.spoken)]
          /\ voice_thread' = [pc |-> IF step.raised THEN "test" ELSE "sleep",
                              last |-> Outcome(step)]
    /\ UNCHANGED <<handlers, call, has_api_key, vcall, pcall, is_running, is_listening, utter,
                   main, cleaned>>

\* time.sleep(0.1)
LoopSleep ==
    /\ voice_thread.pc = "sleep"
    /\ voice_thread' = [pc |-> "test", last |-> voice_thread.last]
    /\ UNCHANGED <<handlers, call, has_api_key, vcall, pcall, is_running, is_listening, utter,
                   main, speech, cleaned>>

\* a thread started by speak enters _speak_sync: say and runAndWait
SpeakEnter ==
    /\ speech.waiting > 0
    /\ speech' = [waiting |-> speech.waiting - 1, device |-> speech.device + 1]
    /\ UNCHANGED <<handlers, call, has_api_key, vcall, pcall, is_running, is_listening, utter,
                   main, voice_thread, cleaned>>

\* runAndWait returns or raises; _speak_sync returns and the thread ends
SpeakLeave ==
    /\ speech.device > 0
    /\ speech' = [speech EXCEPT !.device = @ - 1]
    /\ UNCHANGED <<handlers, call, has_api_key, vcall, pcall, is_running, is_listening, utter,
                   main, voice_thread, cleaned>>

VoiceThreadNext ==
    \/ LoopTest
    \/ LoopBody
    \/ voice_thread.pc = "listen"
         /\ \E heard \in ListenOutcomes, svc \in ThreadServiceOutcomes, now \in Times :
              Listen(heard, svc, now)
    \/ InCommand(voice_thread)
         /\ \E n \in 1..EnvChoices, started \in BOOLEAN : LoopFinish(n, started)
    \/ LoopSleep

MainThreadNext ==
    \/ Start
    \/ ToggleListening
    \/ GuiFails
    \/ GuiStop
    \/ main.pc = "cli"
         /\ \E line \in CliLines, interrupt \in BOOLEAN, svc \in ThreadServiceOutcomes,
               now \in Times :
              CliTurn(line, interrupt, svc, now)
    \/ InCommand(main)
         /\ \E n \in 1..EnvChoices, started \in BOOLEAN : CliFinish(n, started)
    \/ StopRunning
    \/ StopListening
    \/ StopCleanup

NextThreads == MainThreadNext \/ VoiceThreadNext \/ SpeakEnter \/ SpeakLeave

SpecThreads == Init /\ [][NextThreads]_vars

\* the scheduler lets every thread that can take a step take one
SpecThreadsFair ==
    SpecThreads /\ WF_vars(VoiceThreadNext) /\ WF_vars(SpeakEnter) /\ WF_vars(SpeakLeave)

-----------------------------------------------------------------------------
(* Claims about the threads, checked under SpecThreads and SpecThreadsFair *)

\* the positions of listen_loop that belong to one utterance
AtUtterance == voice_thread.pc \in {"listen", "dispatch", "speak"}

\* C11: while the running flag is true, no utterance ends the listen loop:
\* whatever listen, the interpreter, the dispatcher or speak does (no text, a
\* failure, an exception), the loop comes back to its test of the flag, and
\* it exits only there and only with the flag cleared.
C11_LoopSurvivesUtterances ==
    /\ [][(voice_thread'.pc = "exited" /\ voice_thread.pc # "exited")
            => (voice_thread.pc = "test" /\ ~is_running)]_vars
    /\ (AtUtterance ~> voice_thread.pc = "test")

\* the loop is back at its test, the flag still set, after an utterance whose
\* step ended in the apology
C11_Witness ==
    /\ is_running
    /\ voice_thread.pc = "test"
    /\ voice_thread.last = "apology"

\* C12: stop clears both flags, releases the voice resources and stops the
\* background loop before it returns: once stop has returned, the loop takes
\* no further listen, interpret, dispatch or speak step.
C12_LoopStoppedOnReturn ==
    /\ [](main.pc = "stopped" => (~is_running /\ ~is_listening /\ cleaned))
    /\ [][(main.pc = "stopped" /\ AtUtterance) => voice_thread' = voice_thread]_vars

\* C13: start leads from Stopped to Listening: when start has started the
\* loop and opened the window, running and listening are both true.
C13_StartLeadsToListening ==
    [][(main.pc = "init" /\ main'.pc = "gui") => (is_running' /\ is_listening')]_vars

\* C14: no two dispatches are in progress at the same time, whatever the
\* interleaving of the listen loop and the CLI loop.
C14_OneDispatchAtATime == ~(main.pc = "dispatch" /\ voice_thread.pc = "dispatch")

\* C15: at most one utterance is inside the speech device (say/runAndWait of
\* _speak_sync) at any time.
C15_OneInDevice == speech.device <= 1

-----------------------------------------------------------------------------
(* Further claims about the dispatcher, checked under SpecExec *)

\* what the operation of the invocation e returned
Returned_value(h, e, n) ==
    Pick(IF e.via = "call" THEN h.callOuts ELSE h.attrs[e.name].outs, n).ret

\* C16: the dispatch result is the display string of what the invoked
\* operation returned, and 'Task completed successfully' exactly when that
\* value is None or the empty string; 0 or False give their own display string.
C16_ResultString ==
    (Returned /\ call.res.kind = "return" /\ call.res.tag \in {"method", "execute", "call"})
    => LET ret == Returned_value(Deref(handlers[call.task.category.v]),
                                 call.res.invoked[1], call.n)
       IN  call.res.v = IF ret \in {None_, S("")} THEN "Task completed successfully"
                        ELSE ret.v

\* a task of category 'system' with an advertised action was dispatched with
\* SystemController registered for 'system', as at start-up
AdvertisedDispatched ==
    /\ Returned
    /\ IsTask(call.task)
    /\ call.task.category = S("system")
    /\ "system" \in DOMAIN handlers
    /\ handlers["system"] = "SystemController"
    /\ call.task.action.t = "str"
    /\ call.task.action.v \in AdvertisedSystemActions

NotOperations == {"sleep", "lock", "brightness_up", "brightness_down"}

Unsupported(res, action) ==
    /\ res.kind = "return"
    /\ res.v = "Handler SystemController doesn't support action: " \o action
    /\ res.invoked = <<>>

\* the one invocation of the operation named by the task
SameNamed(task) ==
    <<[via |-> "method", name |-> task.action.v,
       args |-> IF Truthy(task.parameters) THEN task.parameters ELSE D({}, "{}")]>>

\* the task's parameters are the named arguments the operation takes
ParametersFit(task) ==
    LET d == SystemController.attrs[task.action.v]
        p == task.parameters
    IN  IF ~Truthy(p) THEN d.req = {}
        ELSE p.t = "dict" /\ d.req \subseteq p.k /\ p.k \subseteq (d.req \cup d.opt)

====
